---- MODULE Spec2Model ----
(***************************************************************************)
(* A model of cleanser's scan engine (src/src/scanner.rs), its data model  *)
(* (src/src/types.rs), the clean command (src/src/cleaner.rs) and the      *)
(* loading of cached results (src/src/cache.rs).                           *)
(*                                                                         *)
(* A path string is a sequence of atoms.  The atom "/" is the separator;   *)
(* every other atom is a piece of a name.  In the file-system model an     *)
(* atom is a whole file name ("node_modules"), in the consolidation model  *)
(* an atom is one character, so that "/a/aa" and "/a/a" are different      *)
(* strings with different components.  The byte length of a path string is *)
(* the sum of the lengths of its atoms.  The names "." and ".." are not in *)
(* any alphabet of the model.                                              *)
(***************************************************************************)
EXTENDS Integers, Sequences, FiniteSets, TLC

VARIABLES
    fs,             \* the file system the scan reads: a sequence of nodes
    config,         \* ScanConfig
    pc,             \* position of the coordinating thread
    items,          \* the shared findings collection, Arc<Mutex<Vec<CleanableItem>>>
    files_to_hash,  \* find_duplicates: the candidates (path, size) of the collection walk
    pending,        \* find_duplicates: indices of candidates no worker has processed yet
    file_map,       \* find_duplicates: the grouping table, a sequence of (key, paths)
    results,        \* the ScanResults scan returns
    trace,          \* history: the stages in the order they ran
    caller,         \* "scan" for the scan command, "clean" for the clean command
    max_risk,       \* clean: the risk ceiling
    dry_run,        \* clean: --dry-run
    force_scan,     \* clean: --force-scan
    cache,          \* the cache file of cache.rs and the age it has when read
    items_to_clean, \* clean: the deletion candidates
    next_item,      \* clean: the candidate the deletion loop is at
    cleaned_size,   \* clean: bytes reclaimed
    cleaned_count,  \* clean: candidates delete_item returned Ok for
    failed_count,   \* clean: candidates delete_item returned Err for
    deleted,        \* history: the calls of delete_item in order, each with its outcome
    branch          \* history: the branch of clean that supplied the results

scanVars == <<fs, config, pc, items, files_to_hash, pending, file_map, results, trace>>

cleanVars == <<caller, max_risk, dry_run, force_scan, cache, items_to_clean,
               next_item, cleaned_size, cleaned_count, failed_count, deleted, branch>>

vars == <<scanVars, cleanVars>>

----------------------------------------------------------------------------
(* Bounds of the consolidation inputs.                                     *)

MaxPathLen == 3

MaxItems == 3

----------------------------------------------------------------------------
(* std::path on Unix, as far as scanner.rs uses it.                        *)

Sep == "/"

RECURSIVE SumLen(_, _)
SumLen(p, i) == IF i > Len(p) THEN 0 ELSE Len(p[i]) + SumLen(p, i + 1)

\* String::len: the byte length of the path string.
StrLen(p) == SumLen(p, 1)

RECURSIVE Runs(_, _, _)
Runs(p, i, cur) ==
    IF i > Len(p)
    THEN IF cur = <<>> THEN <<>> ELSE <<cur>>
    ELSE IF p[i] = Sep
         THEN (IF cur = <<>> THEN <<>> ELSE <<cur>>) \o Runs(p, i + 1, <<>>)
         ELSE Runs(p, i + 1, Append(cur, p[i]))

\* Path::components: a root marker and the non-empty names between separators;
\* repeated and trailing separators vanish.
Components(p) ==
    [root |-> Len(p) > 0 /\ p[1] = Sep, normal |-> Runs(p, 1, <<>>)]

IsPrefixSeq(s, t) == Len(s) <= Len(t) /\ SubSeq(t, 1, Len(s)) = s

\* Path::starts_with: component-wise prefix.
PathStartsWith(p, base) ==
    /\ Components(p).root = Components(base).root
    /\ IsPrefixSeq(Components(base).normal, Components(p).normal)

\* PartialEq for Path: equality of the components.
PathEq(p, q) == Components(p) = Components(q)

\* Path::file_name: the last component ("" when there is none).
FileName(p) ==
    LET c == Components(p).normal IN IF c = <<>> THEN <<>> ELSE c[Len(c)]

\* PathBuf::join of a single name: a separator is added unless one is there.
Join(p, name) ==
    IF Len(p) > 0 /\ p[Len(p)] = Sep THEN Append(p, name)
    ELSE p \o <<Sep, name>>

\* str::contains for a needle given as a sequence of atom sets: some
\* contiguous stretch of the string has its k-th atom in the k-th set.
Contains(p, needle) ==
    \E i \in 1..Len(p) :
        /\ i + Len(needle) - 1 <= Len(p)
        /\ \A k \in 1..Len(needle) : p[i + k - 1] \in needle[k]

----------------------------------------------------------------------------
(* The names of the file-system model and what the scanner's string tests  *)
(* say about each of them.                                                 *)

ArtifactNames ==
    {"node_modules", "target", "build", "dist", ".gradle", ".maven",
     "__pycache__", ".pytest_cache", ".next", ".nuxt", "out"}

ManifestNames == {"package.json", "build.gradle", "pom.xml", "go.mod", "Cargo.toml"}

PlainNames ==
    {"r", "d", "proj", "cleanser", "sub", "Library", "Caches", "Logs", "logs",
     ".logs", ".cache", "Chrome", "pip", "Homebrew", ".cargo", "a.bin",
     "b.bin", "c.bin", "x.log", "link", "nowhere"}

\* The names whose lower-case form contains the needle.
NamesContainingCI(needle) ==
    CASE needle = "chrome"   -> {"Chrome"}
      [] needle = "homebrew" -> {"Homebrew"}
      [] needle = "brew"     -> {"Homebrew"}
      [] needle = "pip"      -> {"pip"}
      [] needle = "cargo"    -> {".cargo", "Cargo.toml"}
      [] OTHER               -> {}

\* The names whose lower-case form ends with "cache" and with "caches".
NamesEndingCacheCI == {".cache", ".pytest_cache"}

NamesEndingDotCacheCI == {".cache"}

NamesEndingCachesCI == {"Caches"}

\* The names that end with "Library", start with "Caches", start with "Logs",
\* and the same for the lower-case forms.
NamesEndingLibrary == {"Library"}

NamesStartingCaches == {"Caches"}

NamesEndingLibraryCI == {"Library"}

NamesStartingCachesCI == {"Caches"}

NamesStartingLogs == {"Logs"}

NamesStartingTarget == {"target"}

NamesEndingDotLog == {"x.log"}

NamesStartingDot ==
    {".gradle", ".maven", ".pytest_cache", ".next", ".nuxt", ".logs", ".cache",
     ".cargo"}

\* Names containing "Applications", and names starting with "System",
\* "Library", "Application Support", "Mobile Documents", "Mail".
NamesContainingApplications == {}

NamesStartingSystem == {}

NamesStartingLibrary == {"Library"}

NamesStartingApplicationSupport == {}

NamesStartingMobileDocuments == {}

NamesStartingMail == {}

----------------------------------------------------------------------------
(* The file system.  A node is [path, kind, size, content, ok]: path is    *)
(* the sequence of names from "/", kind is "dir", "file" or "symlink", ok  *)
(* says whether the node can be read (a directory listed, a file opened).  *)
(* fs lists the nodes in the order read_dir returns them.                  *)

MiB == 1048576

USizeMax == 2147483647

QuickDepth == 3

NormalDepth == 6

LogDepth == 3

LogFloorMiB == 10

\* A node of the file system.  ok: the node can be opened (a directory
\* listed, a file read); stat: its metadata can be read.
Dir(path) ==
    [path |-> path, kind |-> "dir", size |-> 0, content |-> 0, ok |-> TRUE, stat |-> TRUE]

File(path, size, content, ok) ==
    [path |-> path, kind |-> "file", size |-> size, content |-> content, ok |-> ok,
     stat |-> TRUE]

Symlink(path) ==
    [path |-> path, kind |-> "symlink", size |-> 9, content |-> 0, ok |-> TRUE,
     stat |-> TRUE]

\* The node as it is when it cannot be listed or read.
Unreadable(node) == [node EXCEPT !.ok = FALSE]

\* The node as it is when its directory gives no search permission: it is
\* listed, but neither its metadata nor its content can be read.
NoMetadata(node) == [node EXCEPT !.ok = FALSE, !.stat = FALSE]

\* The names of an absolute path string of the file-system model, where every
\* component is one atom.
NamesOf(p) == [k \in 1..Len(Components(p).normal) |-> Components(p).normal[k][1]]

NodeAt(names) ==
    IF \E i \in 1..Len(fs) : fs[i].path = names
    THEN CHOOSE i \in 1..Len(fs) : fs[i].path = names
    ELSE 0

\* Path::exists: false too when the metadata cannot be read.
Exists(p) == NodeAt(NamesOf(p)) # 0 /\ fs[NodeAt(NamesOf(p))].stat

Indices(s) == [i \in 1..Len(s) |-> i]

\* The entries of directory i, in read_dir order.
Kids(i) ==
    LET IsKid(j) == /\ Len(fs[j].path) = Len(fs[i].path) + 1
                    /\ IsPrefixSeq(fs[i].path, fs[j].path)
    IN SelectSeq(Indices(fs), IsKid)

RECURSIVE WalkNode(_, _, _, _)
RECURSIVE WalkKids(_, _, _, _, _)
\* WalkDir's iterator with follow_links(false) and the errors filtered out
\* (filter_map(|e| e.ok())): pre-order, an entry for the node, then, for a
\* readable directory above the depth bound, its entries.
WalkNode(i, p, depth, maxd) ==
    <<[path |-> p, depth |-> depth, node |-> i]>>
    \o (IF fs[i].kind = "dir" /\ fs[i].ok /\ depth < maxd
        THEN WalkKids(Kids(i), 1, p, depth + 1, maxd)
        ELSE <<>>)

WalkKids(kids, k, p, depth, maxd) ==
    IF k > Len(kids) THEN <<>>
    ELSE WalkNode(kids[k], Join(p, fs[kids[k]].path[Len(fs[kids[k]].path)]),
                  depth, maxd)
         \o WalkKids(kids, k + 1, p, depth, maxd)

\* WalkDir::new(root).max_depth(maxd): nothing for a root that does not exist.
WalkDir(root, maxd) ==
    IF Exists(root) THEN WalkNode(NodeAt(NamesOf(root)), root, 0, maxd) ELSE <<>>

RECURSIVE SumFiles(_, _)
SumFiles(es, i) ==
    IF i > Len(es) THEN 0
    ELSE (IF fs[es[i].node].kind = "file" /\ fs[es[i].node].stat
          THEN fs[es[i].node].size ELSE 0)
         + SumFiles(es, i + 1)

\* get_dir_size: the byte sum of the regular files of the subtree.
get_dir_size(p) == SumFiles(WalkDir(p, USizeMax), 1)

\* A slip: the explicit max_depth is ignored.
EffectiveMaxDepthIgnoringOverride(c) ==
    CASE c.speed = "Quick" -> QuickDepth
      [] c.speed = "Normal" -> NormalDepth
      [] OTHER -> USizeMax

\* scan, lines 22-26: config.max_depth is <<>> for None and <<n>> for Some(n).
EffectiveMaxDepth(c) ==
    IF c.max_depth # <<>> THEN c.max_depth[1]
    ELSE CASE c.speed = "Quick" -> QuickDepth
           [] c.speed = "Normal" -> NormalDepth
           [] OTHER -> USizeMax

RECURSIVE FlattenFrom(_, _)
FlattenFrom(ss, i) == IF i > Len(ss) THEN <<>> ELSE ss[i] \o FlattenFrom(ss, i + 1)

\* The pushes of a loop in order: the concatenation of what each pass pushes.
Flatten(ss) == FlattenFrom(ss, 1)

----------------------------------------------------------------------------
(* deduplicate_nested_paths                                                *)

RECURSIVE InsertByLen(_, _)
InsertByLen(sorted, it) ==
    IF sorted = <<>> THEN <<it>>
    ELSE IF StrLen(it.path) < StrLen(sorted[Len(sorted)].path)
         THEN Append(InsertByLen(SubSeq(sorted, 1, Len(sorted) - 1), it),
                     sorted[Len(sorted)])
         ELSE Append(sorted, it)

RECURSIVE SortByLenFrom(_, _, _)
SortByLenFrom(xs, i, acc) ==
    IF i > Len(xs) THEN acc
    ELSE SortByLenFrom(xs, i + 1, InsertByLen(acc, xs[i]))

Reverse(s) == [i \in 1..Len(s) |-> s[Len(s) + 1 - i]]

\* A slip: the sorted findings are walked from the back.
SortByLenReversed(xs) == Reverse(SortByLenFrom(xs, 1, <<>>))

\* sort_by(|a, b| a.path.len().cmp(&b.path.len())): stable, ascending.
SortByLen(xs) == SortByLenFrom(xs, 1, <<>>)

\* The closure of line 90: the item is a child of an already-kept item.
IsChildOfKept(path, kept) ==
    \E k \in 1..Len(kept) :
        PathStartsWith(path, kept[k].path) /\ ~PathEq(path, kept[k].path)

RECURSIVE DedupFrom(_, _, _)
DedupFrom(sorted, i, kept) ==
    IF i > Len(sorted) THEN kept
    ELSE DedupFrom(sorted, i + 1,
                   IF IsChildOfKept(sorted[i].path, kept)
                   THEN kept ELSE Append(kept, sorted[i]))

deduplicate_nested_paths(xs) == DedupFrom(SortByLen(xs), 1, <<>>)

RECURSIVE SumSize(_, _)
SumSize(xs, i) == IF i > Len(xs) THEN 0 ELSE xs[i].size + SumSize(xs, i + 1)

NoResults == [items |-> <<>>, total_size |-> 0, scan_speed |-> "none"]

----------------------------------------------------------------------------
(* The sweeps.  A finding carries two history fields besides those of      *)
(* CleanableItem: sweep, the stage that appended it, and root, the index   *)
(* in config.paths of the root whose walk it comes from.                   *)

Item(path, size, category, risk, description, sweep, root) ==
    [path |-> path, size |-> size, category |-> category, risk_level |-> risk,
     description |-> description, sweep |-> sweep, root |-> root]

EndsWithNameIn(p, S) == Len(p) > 0 /\ p[Len(p)] \in S

\* The lower-cased path string contains a needle that has no separator.
HasCI(p, needle) == \E i \in 1..Len(p) : p[i] \in NamesContainingCI(needle)

\* categorize_cache
categorize_cache(p) ==
    IF HasCI(p, "chrome") \/ HasCI(p, "firefox") \/ HasCI(p, "safari")
    THEN "BrowserCache"
    ELSE IF HasCI(p, "homebrew") \/ HasCI(p, "brew") THEN "BrewCache"
    ELSE IF HasCI(p, "pip") THEN "PipCache"
    ELSE IF HasCI(p, "cargo") THEN "CargoCache"
    ELSE IF HasCI(p, "npm") \/ HasCI(p, "yarn") \/ HasCI(p, "pnpm") THEN "AppCache"
    ELSE IF Contains(p, <<NamesEndingLibraryCI, {Sep}, NamesStartingCachesCI>>)
    THEN "SystemCache"
    ELSE "AppCache"

\* A slip: the catch-all arm of the match gives Moderate.
CacheRiskOtherModerate(category) ==
    CASE category = "SystemCache" -> "Safe"
      [] category = "BrowserCache" -> "Safe"
      [] OTHER -> "Moderate"

\* scan_cache_directories, lines 147-151.
CacheRisk(category) ==
    CASE category = "SystemCache" -> "Safe"
      [] category = "BrowserCache" -> "Safe"
      [] OTHER -> "Safe"

\* Lines 110-115: one of the four cache patterns matches the path string.
CachePatternMatches(p) ==
    \/ EndsWithNameIn(p, NamesEndingCacheCI)
    \/ EndsWithNameIn(p, NamesEndingDotCacheCI)
    \/ EndsWithNameIn(p, NamesEndingCachesCI)
    \/ Contains(p, <<NamesEndingLibrary, {Sep}, NamesStartingCaches>>)

\* Line 137: the path string contains "/target/" or "/cleanser/".
CacheSelfExcluded(p) ==
    \/ Contains(p, <<{Sep}, {"target"}, {Sep}>>)
    \/ Contains(p, <<{Sep}, {"cleanser"}, {Sep}>>)

\* A slip: the size floor is not strict.
OverDirFloorInclusive(size) == size >= 1024 * 1024

\* Lines 144 and 237: size > 1024 * 1024.
OverDirFloor(size) == size > 1024 * 1024

\* scan_cache_directories, the body of the loop for one entry of the walk of
\* root r: the findings it pushes.
CacheEntry(e, r) ==
    IF fs[e.node].kind # "dir" THEN <<>>
    ELSE IF CacheSelfExcluded(e.path) THEN <<>>
    ELSE IF CachePatternMatches(e.path) /\ OverDirFloor(get_dir_size(e.path))
    THEN <<Item(e.path, get_dir_size(e.path), categorize_cache(e.path),
                CacheRisk(categorize_cache(e.path)),
                <<"Cache directory", FileName(e.path)>>, "cache", r)>>
    ELSE <<>>

\* The findings the sweep pushes: the loop body on the entries of the walk
\* of each root in turn.
scan_cache_directories(paths, maxd) ==
    Flatten([r \in 1..Len(paths) |->
        LET es == WalkDir(paths[r], maxd)
        IN Flatten([k \in 1..Len(es) |-> CacheEntry(es[k], r)])])

\* Lines 176-188.
artifact_patterns ==
    << <<"node_modules", "NodeModules", "Moderate">>,
       <<"target", "BuildArtifacts", "Moderate">>,
       <<"build", "BuildArtifacts", "Moderate">>,
       <<"dist", "BuildArtifacts", "Moderate">>,
       <<".gradle", "BuildArtifacts", "Moderate">>,
       <<".maven", "BuildArtifacts", "Moderate">>,
       <<"__pycache__", "BuildArtifacts", "Safe">>,
       <<".pytest_cache", "BuildArtifacts", "Safe">>,
       <<".next", "BuildArtifacts", "Moderate">>,
       <<".nuxt", "BuildArtifacts", "Moderate">>,
       <<"out", "BuildArtifacts", "Moderate">> >>

\* path.parent(): the names of the path without the last one.
ParentNames(p) == SubSeq(NamesOf(p), 1, Len(NamesOf(p)) - 1)

\* parent.join(name).exists()
SiblingExists(p, name) == NodeAt(Append(ParentNames(p), name)) # 0

\* A slip: the Rust guard accepts any project manifest.
TargetGuardAnyManifest(p) ==
    \E m \in ManifestNames : SiblingExists(p, m)

\* Lines 214-220.
TargetGuard(p) == SiblingExists(p, "Cargo.toml")

\* Lines 223-234.
ProjectGuard(p) ==
    \/ SiblingExists(p, "package.json")
    \/ SiblingExists(p, "build.gradle")
    \/ SiblingExists(p, "pom.xml")
    \/ SiblingExists(p, "go.mod")

\* Line 205: the path string contains "/cleanser/target".
BuildSelfExcluded(p) ==
    Contains(p, <<{Sep}, {"cleanser"}, {Sep}, NamesStartingTarget>>)

RECURSIVE BuildPatternsFrom(_, _, _)
\* Lines 211-249: the loop over the patterns from the k-th on.  A failed guard
\* continues with the next pattern; a pattern that passes ends the loop.
BuildPatternsFrom(e, r, k) ==
    IF k > Len(artifact_patterns) THEN <<>>
    ELSE LET pat == artifact_patterns[k] IN
         IF FileName(e.path) # <<pat[1]>> THEN BuildPatternsFrom(e, r, k + 1)
         ELSE IF pat[1] = "target" /\ ~TargetGuard(e.path)
              THEN BuildPatternsFrom(e, r, k + 1)
         ELSE IF pat[1] \in {"build", "dist", "out"} /\ ~ProjectGuard(e.path)
              THEN BuildPatternsFrom(e, r, k + 1)
         ELSE IF OverDirFloor(get_dir_size(e.path))
              THEN <<Item(e.path, get_dir_size(e.path), pat[2], pat[3],
                          <<pat[1], "directory">>, "build", r)>>
              ELSE <<>>

BuildEntry(e, r) ==
    IF fs[e.node].kind # "dir" THEN <<>>
    ELSE IF BuildSelfExcluded(e.path) THEN <<>>
    ELSE BuildPatternsFrom(e, r, 1)

scan_build_artifacts(paths, maxd) ==
    Flatten([r \in 1..Len(paths) |->
        LET es == WalkDir(paths[r], maxd)
        IN Flatten([k \in 1..Len(es) |-> BuildEntry(es[k], r)])])

\* Lines 264-268: format!("{}/Library/Logs", base_path) and the two others.
LogPaths(root) ==
    << root \o <<Sep, "Library", Sep, "Logs">>,
       root \o <<Sep, "logs">>,
       root \o <<Sep, ".logs">> >>

LogEntry(e, r) ==
    IF /\ fs[e.node].kind = "file"
       /\ EndsWithNameIn(e.path, NamesEndingDotLog)
       /\ fs[e.node].stat
       /\ fs[e.node].size > LogFloorMiB * 1024 * 1024
    THEN <<Item(e.path, fs[e.node].size,
                IF Contains(e.path, <<NamesEndingLibrary, {Sep}, NamesStartingLogs>>)
                THEN "SystemLogs" ELSE "AppLogs",
                "Safe", <<"Large log file">>, "logs", r)>>
    ELSE <<>>

\* scan_log_files: max_depth is not used; each log directory that exists is
\* walked to depth 3.
scan_log_files(paths, maxd) ==
    Flatten([r \in 1..Len(paths) |->
        Flatten([j \in 1..Len(LogPaths(paths[r])) |->
            LET es == WalkDir(LogPaths(paths[r])[j], LogDepth)
            IN Flatten([k \in 1..Len(es) |-> LogEntry(es[k], r)])])])

\* Lines 316-323 and 335.
LargeSkipped(p) ==
    \/ Contains(p, <<NamesEndingLibrary, {Sep}, NamesStartingApplicationSupport>>)
    \/ Contains(p, <<NamesEndingLibrary, {Sep}, NamesStartingMobileDocuments>>)
    \/ Contains(p, <<NamesContainingApplications>>)
    \/ Contains(p, <<{Sep}, NamesStartingSystem>>)
    \/ Contains(p, <<{Sep}, NamesStartingLibrary>>)
    \/ Contains(p, <<NamesEndingLibrary, {Sep}, NamesStartingMail>>)

\* Lines 339-344: a hidden name other than ".cache".
LargeHidden(p) ==
    /\ FileName(p) # <<>>
    /\ FileName(p)[1] \in NamesStartingDot
    /\ FileName(p) # <<".cache">>

LargeEntry(e, r) ==
    IF LargeSkipped(e.path) \/ LargeHidden(e.path) THEN <<>>
    ELSE IF fs[e.node].kind = "file"
            /\ fs[e.node].stat
            /\ fs[e.node].size >= config.min_file_size_mb * 1024 * 1024
    THEN <<Item(e.path, fs[e.node].size, "LargeFiles", "Risky",
                <<"Large file">>, "large", r)>>
    ELSE <<>>

scan_large_files(paths, maxd) ==
    Flatten([r \in 1..Len(paths) |->
        LET es == WalkDir(paths[r], maxd)
        IN Flatten([k \in 1..Len(es) |-> LargeEntry(es[k], r)])])

\* find_duplicates, lines 375-391: the candidates, as (path, size, node).
CandidateEntry(e, r) ==
    IF fs[e.node].kind = "file" /\ fs[e.node].stat /\ fs[e.node].size > 1024 * 1024
    THEN <<[path |-> e.path, size |-> fs[e.node].size, node |-> e.node, root |-> r]>>
    ELSE <<>>

CollectCandidates(paths, maxd) ==
    Flatten([r \in 1..Len(paths) |->
        LET es == WalkDir(paths[r], maxd)
        IN Flatten([k \in 1..Len(es) |-> CandidateEntry(es[k], r)])])

\* hash_file's digest of a file of the given content: SHA-256, taken to be
\* injective on contents.
Sha256(content) == <<"sha256", content>>

\* FileHash { hash, size } of candidate c.
KeyOf(c) == [hash |-> Sha256(fs[c.node].content), size |-> c.size]

\* A slip: the push replaces the group of the key instead of extending it.
MapPushReplacing(m, k, path) ==
    [x \in DOMAIN m \cup {k} |-> IF x = k THEN <<path>> ELSE m[x]]

\* entry(file_hash).or_insert_with(Vec::new).push(path)
MapPush(m, k, path) ==
    IF k \in DOMAIN m THEN [m EXCEPT ![k] = Append(@, path)]
    ELSE [x \in DOMAIN m \cup {k} |-> IF x = k THEN <<path>> ELSE m[x]]

\* Lines 412-426: the findings of one group of the table.
GroupFindings(k, group) ==
    IF Len(group) > 1
    THEN [i \in 1..Len(group) - 1 |->
            Item(group[i + 1], k.size, "DuplicateFiles", "Risky",
                 <<"Duplicate of", group[1]>>, "duplicates", 0)]
    ELSE <<>>

Orders(S) ==
    {s \in [1..Cardinality(S) -> S] : \A i, j \in 1..Cardinality(S) : i # j => s[i] # s[j]}

----------------------------------------------------------------------------
(* scan: the stages, in the order of the coordinating thread.              *)

ScanCacheDirectories ==
    /\ pc = "cache"
    /\ items' = items \o scan_cache_directories(config.paths, EffectiveMaxDepth(config))
    /\ pc' = "build"
    /\ trace' = Append(trace, "cache")
    /\ UNCHANGED <<fs, config, files_to_hash, pending, file_map, results>>
    /\ UNCHANGED cleanVars

ScanBuildArtifacts ==
    /\ pc = "build"
    /\ items' = items \o scan_build_artifacts(config.paths, EffectiveMaxDepth(config))
    /\ pc' = "logs"
    /\ trace' = Append(trace, "build")
    /\ UNCHANGED <<fs, config, files_to_hash, pending, file_map, results>>
    /\ UNCHANGED cleanVars

ScanLogFiles ==
    /\ pc = "logs"
    /\ items' = items \o scan_log_files(config.paths, EffectiveMaxDepth(config))
    /\ pc' = "large"
    /\ trace' = Append(trace, "logs")
    /\ UNCHANGED <<fs, config, files_to_hash, pending, file_map, results>>
    /\ UNCHANGED cleanVars

\* A slip: the large-file stage runs whatever the threshold.
LargeStageAlways == TRUE

\* Line 48.
LargeStageEnabled == config.min_file_size_mb > 0

ScanLargeFiles ==
    /\ pc = "large"
    /\ IF LargeStageEnabled
       THEN /\ items' = items \o scan_large_files(config.paths, EffectiveMaxDepth(config))
            /\ trace' = Append(trace, "large")
       ELSE UNCHANGED <<items, trace>>
    /\ pc' = "duplicates"
    /\ UNCHANGED <<fs, config, files_to_hash, pending, file_map, results>>
    /\ UNCHANGED cleanVars

\* find_duplicates up to the start of the parallel phase, or nothing when
\* config.find_duplicates is false (line 57).
FindDuplicatesCollect ==
    /\ pc = "duplicates"
    /\ IF config.find_duplicates
       THEN /\ files_to_hash' = CollectCandidates(config.paths, EffectiveMaxDepth(config))
            /\ pending' = 1..Len(files_to_hash')
            /\ file_map' = <<>>
            /\ pc' = "hash"
            /\ trace' = Append(trace, "duplicates")
       ELSE /\ pc' = "consolidate"
            /\ UNCHANGED <<files_to_hash, pending, file_map, trace>>
    /\ UNCHANGED <<fs, config, items, results>>
    /\ UNCHANGED cleanVars

\* One run of the par_iter closure (lines 395-408), on any candidate no
\* worker has taken yet: the file is hashed and, when that succeeds, pushed
\* to its group under the table's lock.
HashWorker ==
    /\ pc = "hash"
    /\ \E i \in pending :
        /\ pending' = pending \ {i}
        /\ file_map' = IF fs[files_to_hash[i].node].ok
                       THEN MapPush(file_map, KeyOf(files_to_hash[i]), files_to_hash[i].path)
                       ELSE file_map
    /\ UNCHANGED <<fs, config, pc, items, files_to_hash, results, trace>>
    /\ UNCHANGED cleanVars

\* Lines 410-427, once for_each has returned: the table is iterated in the
\* HashMap's order, which is any order.
FindDuplicatesEmit ==
    /\ pc = "hash"
    /\ pending = {}
    /\ \E order \in Orders({k \in DOMAIN file_map : Len(file_map[k]) > 1}) :
         items' = items \o Flatten([j \in 1..Len(order) |->
                                        GroupFindings(order[j], file_map[order[j]])])
    /\ pc' = "consolidate"
    /\ UNCHANGED <<fs, config, files_to_hash, pending, file_map, results, trace>>
    /\ UNCHANGED cleanVars

----------------------------------------------------------------------------
(* scan, lines 64-75: consolidation and the result.                        *)

Consolidate ==
    /\ pc = "consolidate"
    /\ LET out == deduplicate_nested_paths(items) IN
       results' = [items |-> out,
                   total_size |-> SumSize(out, 1),
                   scan_speed |-> config.speed]
    /\ pc' = "done"
    /\ trace' = Append(trace, "consolidate")
    /\ UNCHANGED <<fs, config, items, files_to_hash, pending, file_map>>
    /\ UNCHANGED cleanVars

NextScan ==
    \/ ScanCacheDirectories
    \/ ScanBuildArtifacts
    \/ ScanLogFiles
    \/ ScanLargeFiles
    \/ FindDuplicatesCollect
    \/ HashWorker
    \/ FindDuplicatesEmit
    \/ Consolidate

DefaultConfig ==
    [speed |-> "Normal", paths |-> <<>>, min_file_size_mb |-> 0,
     max_depth |-> <<>>, find_duplicates |-> FALSE]

NoCache == [exists |-> FALSE, parses |-> FALSE, age |-> 0, results |-> NoResults]

\* The clean command's variables when the scan command runs.
CleanIdle ==
    /\ caller = "scan"
    /\ max_risk = "Safe"
    /\ dry_run = FALSE
    /\ force_scan = FALSE
    /\ cache = NoCache
    /\ items_to_clean = <<>>
    /\ next_item = 0
    /\ cleaned_size = 0
    /\ cleaned_count = 0
    /\ failed_count = 0
    /\ deleted = <<>>
    /\ branch = "none"

\* The state scan starts from, for a file system and a configuration.
ScanStart(f, c) ==
    /\ fs = f
    /\ config = c
    /\ pc = "cache"
    /\ items = <<>>
    /\ files_to_hash = <<>>
    /\ pending = {}
    /\ file_map = <<>>
    /\ results = NoResults
    /\ trace = <<>>
    /\ CleanIdle

----------------------------------------------------------------------------
(* File systems and configurations.  Every tree hangs below the directory  *)
(* /r, which is the configured root.                                       *)

MaxChain == 6

MaxLogChain == 3

MaxExplicitDepth == 4

\* The path string of the node with the given names, as a walk from /r
\* builds it: a separator before every name.
PathOf(names) ==
    [i \in 1..2 * Len(names) |-> IF i % 2 = 1 THEN Sep ELSE names[i \div 2]]

RootStr == <<Sep, "r">>

Speeds == {"Quick", "Normal", "Thorough"}

Configs(speeds, roots, minmbs, depths, dups) ==
    {[speed |-> sp, paths |-> ps, min_file_size_mb |-> mb, max_depth |-> md,
      find_duplicates |-> fd] :
        sp \in speeds, ps \in roots, mb \in minmbs, md \in depths, fd \in dups}

\* A home directory: Library/Caches with one vendor directory, a system and
\* an application log, and a project with a manifest and one directory D.
FsHome(V, D, M) ==
    << Dir(<<"r">>),
       Dir(<<"r", "Library">>),
       Dir(<<"r", "Library", "Caches">>),
       Dir(<<"r", "Library", "Caches", V>>),
       File(<<"r", "Library", "Caches", V, "a.bin">>, 2 * MiB, 1, TRUE),
       Dir(<<"r", "Library", "Logs">>),
       File(<<"r", "Library", "Logs", "x.log">>, 10 * MiB + 1, 3, TRUE),
       Dir(<<"r", "logs">>),
       File(<<"r", "logs", "x.log">>, 10 * MiB + 2, 4, TRUE),
       Dir(<<"r", "proj">>),
       File(<<"r", "proj", M>>, 1, 5, TRUE),
       Dir(<<"r", "proj", D>>),
       File(<<"r", "proj", D, "b.bin">>, 2 * MiB, 1, TRUE) >>

HomeTrees ==
    {FsHome(V, D, M) : V \in {"Chrome", "pip", "Homebrew", ".cargo", "sub"},
                       D \in ArtifactNames \cup {".cache"},
                       M \in {"package.json", "Cargo.toml"}}

Init ==
    \E f \in HomeTrees :
      \E c \in Configs(Speeds, {<<RootStr>>}, {0, 2}, {<<>>}, BOOLEAN) :
        ScanStart(f, c)

Spec == Init /\ [][NextScan]_vars

\* A project directory P with an optional manifest M and a directory D that
\* holds a file of s1 bytes, a file of s2 bytes one level down and, with
\* link, a symbolic link.
FsProject(P, M, D, s1, s2, link) ==
    << Dir(<<"r">>), Dir(<<"r", P>>) >>
    \o (IF M = "none" THEN <<>> ELSE <<File(<<"r", P, M>>, 1, 5, TRUE)>>)
    \o << Dir(<<"r", P, D>>),
          File(<<"r", P, D, "a.bin">>, s1, 1, TRUE),
          Dir(<<"r", P, D, "sub">>),
          File(<<"r", P, D, "sub", "b.bin">>, s2, 2, TRUE) >>
    \o (IF link THEN <<Symlink(<<"r", P, D, "link">>)>> ELSE <<>>)

ProjectTrees ==
    {FsProject(P, M, D, s1, s2, link) :
        P \in {"proj", "cleanser"},
        M \in ManifestNames \cup {"none"},
        D \in {"build", "dist", "out", "target", "node_modules", ".cache"},
        s1 \in {MiB - 1, MiB, MiB + 1},
        s2 \in {0, 1},
        link \in BOOLEAN}

InitArtifact ==
    \E f \in ProjectTrees :
      \E c \in Configs({"Normal"}, {<<RootStr>>, <<RootStr, RootStr>>}, {0, 1},
                       {<<>>}, BOOLEAN) :
        ScanStart(f, c)

SpecArtifact == InitArtifact /\ [][NextScan]_vars

\* <<"d", ..., "d">>, n times.
Chain(n) == [i \in 1..n |-> "d"]

ChainDirs(base, n) == [i \in 1..n |-> Dir(base \o Chain(i))]

\* A directory D with a file of 2 MiB at the end of a chain of k directories
\* below the root, a copy of the file right below the root, and a log file
\* at the end of a chain of j directories below /r/logs.
FsDeep(k, D, j) ==
    << Dir(<<"r">>), File(<<"r", "b.bin">>, 2 * MiB, 1, TRUE) >>
    \o ChainDirs(<<"r">>, k)
    \o << Dir(<<"r">> \o Chain(k) \o <<D>>),
          File(<<"r">> \o Chain(k) \o <<D, "a.bin">>, 2 * MiB, 1, TRUE),
          Dir(<<"r", "logs">>) >>
    \o ChainDirs(<<"r", "logs">>, j)
    \o << File(<<"r", "logs">> \o Chain(j) \o <<"x.log">>, 10 * MiB + 1, 3, TRUE) >>

DeepTrees ==
    {FsDeep(k, D, j) : k \in 0..MaxChain, D \in {".cache", "node_modules"},
                       j \in 0..MaxLogChain}

InitDepth ==
    \E f \in DeepTrees :
      \E c \in Configs(Speeds, {<<RootStr>>}, {0, 2},
                       {<<>>} \cup {<<n>> : n \in 0..MaxExplicitDepth}, BOOLEAN) :
        ScanStart(f, c)

SpecDepth == InitDepth /\ [][NextScan]_vars

\* The size of a file of each content: contents 1 and 2 differ and have the
\* same size, content 3 is exactly at the hashing floor.
SizeOfContent(c) == CASE c = 1 -> 2 * MiB [] c = 2 -> 2 * MiB [] OTHER -> MiB

\* Three files right below the root; b.bin may be unreadable.
FsFiles(ca, cb, cc, okb) ==
    << Dir(<<"r">>),
       File(<<"r", "a.bin">>, SizeOfContent(ca), ca, TRUE),
       File(<<"r", "b.bin">>, SizeOfContent(cb), cb, okb),
       File(<<"r", "c.bin">>, SizeOfContent(cc), cc, TRUE) >>

FileTrees ==
    {FsFiles(ca, cb, cc, okb) : ca \in 1..3, cb \in 1..3, cc \in 1..3, okb \in BOOLEAN}

InitDup ==
    \E f \in FileTrees :
      \E c \in Configs({"Normal"}, {<<RootStr>>, <<RootStr, RootStr>>}, {0},
                       {<<>>}, {TRUE}) :
        ScanStart(f, c)

SpecDup == InitDup /\ [][NextScan]_vars

\* Roots as a command line may spell them: with repeated or trailing
\* separators, and one inside the other.
MaxExtraSeps == 4

Seps(k) == [i \in 1..k |-> Sep]

RootSpellings ==
    {RootStr \o Seps(k) : k \in 0..MaxExtraSeps}
    \cup {PathOf(<<"r", ".cache">>) \o Seps(k) : k \in 0..1}

\* A hidden cache directory holding one large file.
FsNested(okd) ==
    << Dir(<<"r">>),
       Dir(<<"r", ".cache">>),
       File(<<"r", ".cache", "d">>, 2 * MiB, 1, okd) >>

InitRoots ==
    \E okd \in BOOLEAN :
      \E c \in Configs({"Normal"},
                       {<<a>> : a \in RootSpellings}
                           \cup {<<a, b>> : a \in RootSpellings, b \in RootSpellings},
                       {0, 2}, {<<>>}, BOOLEAN) :
        ScanStart(FsNested(okd), c)

SpecRoots == InitRoots /\ [][NextScan]_vars

\* A home directory where entries fail: a cache directory with a
\* subdirectory that may be unreadable, a project directory that may be
\* unreadable, three files of one content of which c.bin may be unreadable or
\* without metadata, and a dangling symbolic link.
FsFaulty(okSub, okProj, cState, sa) ==
    << Dir(<<"r">>),
       Dir(<<"r", ".cache">>),
       File(<<"r", ".cache", "a.bin">>, sa, 2, TRUE),
       IF okSub THEN Dir(<<"r", ".cache", "sub">>)
       ELSE Unreadable(Dir(<<"r", ".cache", "sub">>)),
       File(<<"r", ".cache", "sub", "b.bin">>, 2 * MiB, 1, TRUE),
       CASE cState = "fine" -> File(<<"r", "c.bin">>, 2 * MiB, 1, TRUE)
         [] cState = "unreadable" -> Unreadable(File(<<"r", "c.bin">>, 2 * MiB, 1, TRUE))
         [] cState = "no_metadata" -> NoMetadata(File(<<"r", "c.bin">>, 2 * MiB, 1, TRUE)),
       File(<<"r", "d">>, 2 * MiB, 1, TRUE),
       Symlink(<<"r", "link">>),
       IF okProj THEN Dir(<<"r", "proj">>) ELSE Unreadable(Dir(<<"r", "proj">>)),
       Dir(<<"r", "proj", "node_modules">>),
       File(<<"r", "proj", "node_modules", "a.bin">>, 2 * MiB, 3, TRUE) >>

FaultyTrees ==
    {FsFaulty(okSub, okProj, cState, sa) :
        okSub \in BOOLEAN, okProj \in BOOLEAN,
        cState \in {"fine", "unreadable", "no_metadata"},
        sa \in {1, 2 * MiB}}

\* Roots that resolve and roots that do not: /r/nowhere does not exist, and
\* /r/proj may be unreadable.
FaultyRoots ==
    {<<RootStr>>, <<PathOf(<<"r", "nowhere">>)>>, <<PathOf(<<"r", "proj">>)>>,
     <<PathOf(<<"r", "nowhere">>), RootStr>>, <<RootStr, PathOf(<<"r", "proj">>)>>}

InitFaulty ==
    \E f \in FaultyTrees :
      \E c \in Configs({"Normal"}, FaultyRoots, {0, 2}, {<<>>}, BOOLEAN) :
        ScanStart(f, c)

SpecFaulty == InitFaulty /\ [][NextScan]_vars

----------------------------------------------------------------------------
(* clean (src/src/cleaner.rs).  The cache file is kept in the variable     *)
(* cache and not as a node of fs.                                          *)

CACHE_MAX_AGE_SECS == 3600

MaxCached == 2

\* The rank of a RiskLevel in the derived Ord: the order of declaration.
RiskOrd(r) == CASE r = "Safe" -> 0 [] r = "Moderate" -> 1 [] r = "Risky" -> 2

\* A slip: the ceiling itself is left out.
RiskBelow(a, b) == RiskOrd(a) < RiskOrd(b)

\* item.risk_level <= max_risk
RiskLeq(a, b) == RiskOrd(a) <= RiskOrd(b)

\* cache::load_scan_results(None): "Err" when the file cannot be parsed,
\* "None" when there is no file or it is older than the maximum age, and
\* "Some" with the cached results otherwise.
load_scan_results ==
    IF ~cache.exists THEN "None"
    ELSE IF ~cache.parses THEN "Err"
    ELSE IF cache.age > CACHE_MAX_AGE_SECS THEN "None"
    ELSE "Some"

\* run_fresh_scan, lines 9-15.
FreshScanConfig ==
    [speed |-> "Normal", paths |-> <<RootStr>>, min_file_size_mb |-> 0,
     max_depth |-> <<6>>, find_duplicates |-> FALSE]

\* The branch of lines 32-72 that is taken.
LoadBranch ==
    IF force_scan THEN "force_scan"
    ELSE CASE load_scan_results = "Some" -> "cache_hit"
           [] load_scan_results = "None" -> "no_fresh_cache"
           [] load_scan_results = "Err" -> "load_error"

\* clean, lines 32-72: the cached results are taken, or scan is called.
CleanLoad ==
    /\ pc = "clean"
    /\ branch' = LoadBranch
    /\ IF ~force_scan /\ load_scan_results = "Some"
       THEN /\ results' = cache.results
            /\ pc' = "filter"
            /\ UNCHANGED <<config, items, trace>>
       ELSE /\ config' = FreshScanConfig
            /\ items' = <<>>
            /\ trace' = <<>>
            /\ pc' = "cache"
            /\ UNCHANGED results
    /\ UNCHANGED <<fs, files_to_hash, pending, file_map>>
    /\ UNCHANGED <<caller, max_risk, dry_run, force_scan, cache, items_to_clean,
                   next_item, cleaned_size, cleaned_count, failed_count, deleted>>

\* run_fresh_scan, lines 17-27: scan has returned and its results are saved.
CleanScanReturned ==
    /\ pc = "done"
    /\ caller = "clean"
    /\ cache' = [exists |-> TRUE, parses |-> TRUE, age |-> 0, results |-> results]
    /\ pc' = "filter"
    /\ UNCHANGED <<fs, config, items, files_to_hash, pending, file_map, results, trace>>
    /\ UNCHANGED <<caller, max_risk, dry_run, force_scan, items_to_clean, next_item,
                   cleaned_size, cleaned_count, failed_count, deleted, branch>>

\* Lines 75-79.
DeletionCandidates(found, ceiling) ==
    SelectSeq(found, LAMBDA f : RiskLeq(f.risk_level, ceiling))

\* A slip: the dry-run return is missing.
AfterFilterIgnoringDryRun(candidates, dry) ==
    IF candidates = <<>> THEN "returned_empty" ELSE "delete"

\* Lines 81-84 and 112-115: where clean goes once it has its candidates.
AfterFilter(candidates, dry) ==
    IF candidates = <<>> THEN "returned_empty"
    ELSE IF dry THEN "returned_dry"
    ELSE "delete"

\* clean, lines 75-115: the candidates are filtered; clean returns when there
\* are none and when this is a dry run.
CleanFilter ==
    /\ pc = "filter"
    /\ items_to_clean' = DeletionCandidates(results.items, max_risk)
    /\ pc' = AfterFilter(items_to_clean', dry_run)
    /\ next_item' = 1
    /\ UNCHANGED <<fs, config, items, files_to_hash, pending, file_map, results, trace>>
    /\ UNCHANGED <<caller, max_risk, dry_run, force_scan, cache, cleaned_size,
                   cleaned_count, failed_count, deleted, branch>>

\* get_dir_size_fast, lines 174-190: the same sum as the scanner's.
get_dir_size_fast(p) == SumFiles(WalkDir(p, USizeMax), 1)

\* The nodes of the file system that are not at or below the given names.
Without(names) == SelectSeq(fs, LAMBDA n : ~IsPrefixSeq(names, n.path))

\* A slip: the loop stops at the first failure.
NextCandidateUnlessFailed(i, ok) == IF ok THEN i + 1 ELSE Len(items_to_clean) + 1

\* Lines 122-134: the for loop goes on to the next candidate whatever
\* delete_item returned.
NextCandidate(i, ok) == i + 1

\* delete_item on the candidate the loop is at (lines 122-134 and 150-172):
\* a path that does not exist is Ok(0); otherwise the size is taken and the
\* entry removed, or the removal fails and the entry stays.
DeleteItem ==
    /\ pc = "delete"
    /\ next_item <= Len(items_to_clean)
    /\ LET p == items_to_clean[next_item].path
           size == IF ~Exists(p) THEN 0
                   ELSE IF fs[NodeAt(NamesOf(p))].kind = "dir" THEN get_dir_size_fast(p)
                   ELSE fs[NodeAt(NamesOf(p))].size
       IN \E removal_ok \in (IF Exists(p) THEN BOOLEAN ELSE {TRUE}) :
            /\ deleted' = Append(deleted, [path |-> p, existed |-> Exists(p),
                                           ok |-> removal_ok,
                                           size |-> IF removal_ok THEN size ELSE 0])
            /\ next_item' = NextCandidate(next_item, removal_ok)
            /\ IF removal_ok
               THEN /\ cleaned_size' = cleaned_size + size
                    /\ cleaned_count' = cleaned_count + 1
                    /\ fs' = Without(NamesOf(p))
                    /\ UNCHANGED failed_count
               ELSE /\ failed_count' = failed_count + 1
                    /\ UNCHANGED <<fs, cleaned_size, cleaned_count>>
    /\ UNCHANGED <<config, pc, items, files_to_hash, pending, file_map, results, trace>>
    /\ UNCHANGED <<caller, max_risk, dry_run, force_scan, cache, items_to_clean, branch>>

\* Lines 136-147: the loop is over, the summary is printed, clean returns Ok.
CleanSummary ==
    /\ pc = "delete"
    /\ next_item > Len(items_to_clean)
    /\ pc' = "returned"
    /\ UNCHANGED <<fs, config, items, files_to_hash, pending, file_map, results, trace>>
    /\ UNCHANGED cleanVars

\* The steps of scan that run_fresh_scan's configuration allows.
NextClean ==
    \/ CleanLoad
    \/ ScanCacheDirectories
    \/ ScanBuildArtifacts
    \/ ScanLogFiles
    \/ ScanLargeFiles
    \/ FindDuplicatesCollect
    \/ Consolidate
    \/ CleanScanReturned
    \/ CleanFilter
    \/ DeleteItem
    \/ CleanSummary

\* The findings a cache file may hold: of any earlier scan, so of any risk,
\* and of a path that is gone by now.
CachedFindings ==
    { Item(PathOf(<<"r", "Library", "Caches">>), 2 * MiB, "SystemCache", "Safe",
           <<"Cache directory", <<"Caches">>>>, "cache", 1),
      Item(PathOf(<<"r", "proj", "node_modules">>), 2 * MiB, "NodeModules", "Moderate",
           <<"node_modules", "directory">>, "build", 1),
      Item(PathOf(<<"r", "proj", "node_modules", "b.bin">>), 2 * MiB, "LargeFiles",
           "Risky", <<"Large file">>, "large", 1),
      Item(PathOf(<<"r", "nowhere">>), 3 * MiB, "AppCache", "Safe",
           <<"Cache directory", <<"nowhere">>>>, "cache", 1) }

CachedLists ==
    UNION {{s \in [1..n -> CachedFindings] : \A i, j \in 1..n : i # j => s[i] # s[j]} :
              n \in 0..MaxCached}

CacheFiles ==
    {NoCache, [exists |-> TRUE, parses |-> FALSE, age |-> 0, results |-> NoResults]}
    \cup {[exists |-> TRUE, parses |-> TRUE, age |-> a,
           results |-> [items |-> l, total_size |-> SumSize(l, 1), scan_speed |-> "Normal"]] :
             a \in {0, CACHE_MAX_AGE_SECS, CACHE_MAX_AGE_SECS + 1}, l \in CachedLists}

\* The home directory clean runs in.
CleanHome == FsHome("Chrome", "node_modules", "package.json")

InitClean ==
    /\ fs = CleanHome
    /\ config = DefaultConfig
    /\ pc = "clean"
    /\ items = <<>>
    /\ files_to_hash = <<>>
    /\ pending = {}
    /\ file_map = <<>>
    /\ results = NoResults
    /\ trace = <<>>
    /\ caller = "clean"
    /\ max_risk \in {"Safe", "Moderate", "Risky"}
    /\ dry_run \in BOOLEAN
    /\ force_scan \in BOOLEAN
    /\ cache \in CacheFiles
    /\ items_to_clean = <<>>
    /\ next_item = 0
    /\ cleaned_size = 0
    /\ cleaned_count = 0
    /\ failed_count = 0
    /\ deleted = <<>>
    /\ branch = "none"

SpecClean == InitClean /\ [][NextClean]_vars

----------------------------------------------------------------------------
(* The consolidator on its own: every collection of at most MaxItems       *)
(* findings whose paths are absolute strings of at most MaxPathLen         *)
(* characters over {"/", "a"}.                                             *)

PathChars == {Sep, "a"}

RECURSIVE StringsOfLen(_)
StringsOfLen(n) ==
    IF n = 0 THEN {<<>>}
    ELSE {Append(s, c) : s \in StringsOfLen(n - 1), c \in PathChars}

AbsPaths == {s \in UNION {StringsOfLen(n) : n \in 1..MaxPathLen} : s[1] = Sep}

\* The finding at input position i; its size is its position, so that two
\* findings of the same path stay distinguishable.
InputItem(p, i) ==
    [path |-> p, size |-> i, category |-> "AppCache", risk_level |-> "Safe",
     description |-> <<"Cache directory">>, sweep |-> "input", root |-> 0]

InitDedup ==
    /\ \E n \in 0..MaxItems :
         \E ps \in [1..n -> AbsPaths] :
            items = [i \in 1..n |-> InputItem(ps[i], i)]
    /\ fs = <<>>
    /\ config = DefaultConfig
    /\ pc = "consolidate"
    /\ files_to_hash = <<>>
    /\ pending = {}
    /\ file_map = <<>>
    /\ results = NoResults
    /\ trace = <<>>
    /\ CleanIdle

NextDedup == Consolidate

SpecDedup == InitDedup /\ [][NextDedup]_vars

----------------------------------------------------------------------------
(* Claims about the consolidator.                                          *)

StrictDescendant(p, q) == PathStartsWith(p, q) /\ ~PathEq(p, q)

NoNestedPair(xs) ==
    \A i, j \in 1..Len(xs) : i # j => ~StrictDescendant(xs[i].path, xs[j].path)

\* C1: whatever the input collection, the consolidated findings contain no
\* two findings one of whose paths is a strict component-wise descendant of
\* the other's.
C1_NoNestedOutput == pc = "done" => NoNestedPair(results.items)

\* C2: consolidating the consolidated findings again yields the same
\* sequence of findings.
C2_Idempotent ==
    pc = "done" => deduplicate_nested_paths(results.items) = results.items

\* C2 witness: a consolidation that dropped a nested finding and kept more
\* than one.
C2_Witness ==
    /\ pc = "done"
    /\ Len(results.items) = 2
    /\ Len(items) > Len(results.items)

----------------------------------------------------------------------------
(* Claims about the order of the stages.                                   *)

StageRank(st) ==
    CASE st = "input" -> 0
      [] st = "cache" -> 1
      [] st = "build" -> 2
      [] st = "logs" -> 3
      [] st = "large" -> 4
      [] st = "duplicates" -> 5
      [] st = "consolidate" -> 6

Ran(st) == \E i \in 1..Len(trace) : trace[i] = st

RECURSIVE AddSizes(_)
\* The sum of the sizes of a sequence of findings, from the back.
AddSizes(xs) ==
    IF xs = <<>> THEN 0 ELSE AddSizes(SubSeq(xs, 1, Len(xs) - 1)) + xs[Len(xs)].size

\* C3: the findings are appended stage by stage in the order cache, build,
\* logs, large, duplicates; every stage runs at most once and in that order;
\* when scan has returned, the three first stages have run, the large-file
\* stage has run exactly if min_file_size_mb > 0 and the duplicate stage
\* exactly if find_duplicates; consolidation has run once, with no hashing
\* worker left, and total_size is the sum over the consolidated findings.
C3_StageOrder ==
    /\ \A i, j \in 1..Len(items) :
          i < j => StageRank(items[i].sweep) <= StageRank(items[j].sweep)
    /\ \A i, j \in 1..Len(trace) :
          i < j => StageRank(trace[i]) < StageRank(trace[j])
    /\ Ran("consolidate") => pending = {} /\ pc = "done"
    /\ pc = "done" =>
          /\ Ran("cache") /\ Ran("build") /\ Ran("logs") /\ Ran("consolidate")
          /\ Ran("large") <=> config.min_file_size_mb > 0
          /\ Ran("duplicates") <=> config.find_duplicates
          /\ (\E i \in 1..Len(items) : items[i].sweep = "large") => Ran("large")
          /\ results.total_size = AddSizes(results.items)
          /\ \A i \in 1..Len(results.items) :
                \E j \in 1..Len(items) : items[j] = results.items[i]

\* C3 witness: a scan that ran all six stages, with findings of the large-file
\* and the duplicate stage, and whose consolidation dropped a finding.
C3_Witness ==
    /\ pc = "done"
    /\ Len(trace) = 6
    /\ \E i \in 1..Len(items) : items[i].sweep = "large"
    /\ \E i \in 1..Len(items) : items[i].sweep = "duplicates"
    /\ Len(results.items) < Len(items)

----------------------------------------------------------------------------
(* Claims about the findings of the sweeps.                                *)

CacheCategories ==
    {"SystemCache", "BrowserCache", "AppCache", "PipCache", "BrewCache", "CargoCache"}

LogCategories == {"SystemLogs", "AppLogs"}

RiskRuleHolds(f) ==
    CASE f.category \in CacheCategories \cup LogCategories -> f.risk_level = "Safe"
      [] f.category \in {"LargeFiles", "DuplicateFiles"} -> f.risk_level = "Risky"
      [] f.category = "NodeModules" -> f.risk_level = "Moderate"
      [] f.category = "BuildArtifacts" ->
            f.risk_level = (IF FileName(f.path) \in {<<"__pycache__">>, <<".pytest_cache">>}
                            THEN "Safe" ELSE "Moderate")
      [] OTHER -> FALSE

\* C7: every finding, before and after consolidation, has the risk its
\* category prescribes: the cache and log categories Safe, LargeFiles and
\* DuplicateFiles Risky, NodeModules Moderate, BuildArtifacts Moderate but
\* Safe for a directory named __pycache__ or .pytest_cache.
C7_RiskByCategory ==
    /\ \A i \in 1..Len(items) : RiskRuleHolds(items[i])
    /\ \A i \in 1..Len(results.items) : RiskRuleHolds(results.items[i])

\* C7 witness: a scan result with a Safe build artifact, a Safe cache finding
\* of another path and a Risky finding.
C7_Witness ==
    /\ pc = "done"
    /\ \E i, j, k \in 1..Len(results.items) :
          /\ results.items[i].category = "BuildArtifacts"
          /\ results.items[i].risk_level = "Safe"
          /\ results.items[j].category \in CacheCategories \ {"AppCache"}
          /\ results.items[k].risk_level = "Risky"

RECURSIVE FileBytesFrom(_, _)
\* The bytes of the regular files at or below names, over the nodes from i on.
FileBytesFrom(names, i) ==
    IF i > Len(fs) THEN 0
    ELSE (IF fs[i].kind = "file" /\ IsPrefixSeq(names, fs[i].path)
          THEN fs[i].size ELSE 0) + FileBytesFrom(names, i + 1)

SubtreeBytes(names) == FileBytesFrom(names, 1)

DirNodes == {i \in 1..Len(fs) : fs[i].kind = "dir"}

NameOfNode(i) == fs[i].path[Len(fs[i].path)]

FindingsAt(p, sw) == {i \in 1..Len(items) : items[i].sweep = sw /\ items[i].path = p}

\* The cache sweep matches directory i: a cache pattern matches its path and
\* the path is not one the sweep leaves out.
CacheMatched(i) ==
    CachePatternMatches(PathOf(fs[i].path)) /\ ~CacheSelfExcluded(PathOf(fs[i].path))

ManifestsFor(name) ==
    IF name = "target" THEN {"Cargo.toml"}
    ELSE IF name \in {"build", "dist", "out"}
         THEN {"package.json", "build.gradle", "pom.xml", "go.mod"}
         ELSE {}

\* The parent of directory i holds a manifest the name of i asks for.
HasManifest(i) ==
    \E m \in ManifestsFor(NameOfNode(i)) :
        \E j \in 1..Len(fs) :
            fs[j].path = SubSeq(fs[i].path, 1, Len(fs[i].path) - 1) \o <<m>>

\* The path of node i has a component "cleanser" followed by the component
\* "target": the path string contains "/cleanser/target".
UnderCleanserTarget(i) ==
    \E k \in 1..Len(fs[i].path) - 1 :
        fs[i].path[k] = "cleanser" /\ fs[i].path[k + 1] = "target"

\* The build sweep matches directory i: its name is an artifact name, the
\* manifest its name asks for is there, and it is not left out.
BuildMatched(i) ==
    /\ NameOfNode(i) \in ArtifactNames
    /\ ManifestsFor(NameOfNode(i)) # {} => HasManifest(i)
    /\ ~UnderCleanserTarget(i)

\* C8: a finding of the cache or the build sweep has the byte sum of the
\* regular files of its subtree as its size, and that is more than 1,048,576;
\* a directory the sweep matches has a finding exactly if its byte sum is
\* 1,048,577 or more, so none at exactly 1,048,576.
C8_DirFloor ==
    /\ \A i \in 1..Len(items) :
          items[i].sweep \in {"cache", "build"} =>
             /\ items[i].size = SubtreeBytes(NamesOf(items[i].path))
             /\ items[i].size > 1048576
    /\ pc # "cache" =>
          \A i \in DirNodes :
             CacheMatched(i) =>
                (SubtreeBytes(fs[i].path) >= 1048577
                    <=> FindingsAt(PathOf(fs[i].path), "cache") # {})
    /\ pc \notin {"cache", "build"} =>
          \A i \in DirNodes :
             BuildMatched(i) =>
                (SubtreeBytes(fs[i].path) >= 1048577
                    <=> FindingsAt(PathOf(fs[i].path), "build") # {})

\* C8 witness: a scan with a directory finding of exactly 1,048,577 bytes made
\* of two files, beside a symbolic link that is not counted.
C8_Witness ==
    /\ pc = "done"
    /\ \E i \in 1..Len(results.items) :
          /\ results.items[i].sweep \in {"cache", "build"}
          /\ results.items[i].size = 1048577
          /\ \E j \in 1..Len(fs) :
                /\ fs[j].kind = "file" /\ fs[j].size = 1
                /\ IsPrefixSeq(NamesOf(results.items[i].path), fs[j].path)
          /\ \E j \in 1..Len(fs) :
                /\ fs[j].kind = "symlink"
                /\ IsPrefixSeq(NamesOf(results.items[i].path), fs[j].path)

GuardedDirs == {i \in DirNodes : NameOfNode(i) \in {"build", "dist", "out", "target"}}

BuildCount(i) == Cardinality(FindingsAt(PathOf(fs[i].path), "build"))

\* The number of walks of the configured roots that visit node i.
Visits(i) ==
    Cardinality({r \in 1..Len(config.paths) :
        \E k \in 1..Len(WalkDir(config.paths[r], EffectiveMaxDepth(config))) :
            WalkDir(config.paths[r], EffectiveMaxDepth(config))[k].node = i})

----------------------------------------------------------------------------
(* Claims about the depth of the walks.                                    *)

NumComponents(p) == Len(Components(p).normal)

\* Path p is at most n levels below path base.
WithinLevels(p, base, n) ==
    PathStartsWith(p, base) /\ NumComponents(p) - NumComponents(base) <= n

DepthBounded(f) ==
    \E r \in 1..Len(config.paths) :
        /\ PathStartsWith(f.path, config.paths[r])
        /\ config.max_depth # <<>> =>
              WithinLevels(f.path, config.paths[r], config.max_depth[1])
        /\ config.max_depth = <<>> /\ config.speed = "Quick" =>
              WithinLevels(f.path, config.paths[r], 3)
        /\ config.max_depth = <<>> /\ config.speed = "Normal" =>
              WithinLevels(f.path, config.paths[r], 6)

LogBounded(f) ==
    \E r \in 1..Len(config.paths) :
        \E sub \in {<<Sep, "Library", Sep, "Logs">>, <<Sep, "logs">>, <<Sep, ".logs">>} :
            WithinLevels(f.path, config.paths[r] \o sub, 3)

\* C10: a finding of the cache, build, large-file or duplicate sweep is at
\* most max_depth levels below a configured root when max_depth is given, and
\* otherwise at most 3 levels for Quick and 6 for Normal; a finding of the log
\* sweep is at most 3 levels below <root>/Library/Logs, <root>/logs or
\* <root>/.logs, whatever the depth bound.
C10_DepthBound ==
    \A i \in 1..Len(items) :
        IF items[i].sweep = "logs" THEN LogBounded(items[i]) ELSE DepthBounded(items[i])

\* C10 witness: a Quick scan with max_depth 4 that has a directory finding 4
\* levels below the root, and a scan with max_depth 0 would not; here the log
\* finding is 4 levels below the root as well.
C10_Witness ==
    /\ pc = "done"
    /\ config.speed = "Quick"
    /\ config.max_depth = <<4>>
    /\ \E i \in 1..Len(items) :
          /\ items[i].sweep \in {"cache", "build"}
          /\ NumComponents(items[i].path) - NumComponents(config.paths[1]) = 4
    /\ \E i \in 1..Len(items) :
          /\ items[i].sweep = "logs"
          /\ NumComponents(items[i].path) - NumComponents(config.paths[1]) = 4

----------------------------------------------------------------------------
(* Claims about the duplicate detector.                                    *)

DuplicateFindings == SelectSeq(items, LAMBDA f : f.sweep = "duplicates")

\* Files A = /r/a.bin and B = /r/b.bin are identical, C = /r/c.bin differs,
\* all three are above the hashing floor and readable, and the one root is
\* walked once: A is met before B.
ThreeFileScenario ==
    /\ Len(config.paths) = 1
    /\ Len(fs) = 4
    /\ fs[2].content = fs[3].content
    /\ fs[4].content # fs[2].content
    /\ \A i \in 2..4 : fs[i].size > 1048576 /\ fs[i].ok

\* C4: in the three-file scenario, once the duplicate stage has emitted, there
\* is exactly one duplicate finding, it is for B, and it names A as original.
C4_ReportsBNamingA ==
    ThreeFileScenario /\ pc \in {"consolidate", "done"} =>
        /\ Len(DuplicateFindings) = 1
        /\ DuplicateFindings[1].path = PathOf(<<"r", "b.bin">>)
        /\ DuplicateFindings[1].description = <<"Duplicate of", PathOf(<<"r", "a.bin">>)>>

\* The candidate files whose hashing succeeds, as a set of paths.
HashedFiles ==
    {files_to_hash[i].path : i \in {j \in 1..Len(files_to_hash) : fs[files_to_hash[j].node].ok}}

KeyOfFile(p) == [hash |-> Sha256(fs[NodeAt(NamesOf(p))].content),
                 size |-> fs[NodeAt(NamesOf(p))].size]

GroupOfFile(p) == {q \in HashedFiles : KeyOfFile(q) = KeyOfFile(p)}

DuplicateCount(S) ==
    Cardinality({i \in 1..Len(DuplicateFindings) : DuplicateFindings[i].path \in S})

\* C5: once the duplicate stage has emitted, a group of n >= 2 hashed
\* candidate files of one (hash, size) key has n - 1 duplicate findings, none
\* of them for the first-inserted path of the group, each of the key's size
\* and Risky; a hashed candidate file whose key no other file has gets none.
C5_OneFindingPerExtraCopy ==
    pc \in {"consolidate", "done"} /\ Ran("duplicates") =>
        /\ \A p \in HashedFiles :
              /\ Cardinality(GroupOfFile(p)) >= 2 =>
                    /\ DuplicateCount(GroupOfFile(p)) = Cardinality(GroupOfFile(p)) - 1
                    /\ DuplicateCount({file_map[KeyOfFile(p)][1]}) = 0
              /\ Cardinality(GroupOfFile(p)) = 1 => DuplicateCount({p}) = 0
        /\ \A i \in 1..Len(DuplicateFindings) :
              /\ DuplicateFindings[i].path \in HashedFiles
              /\ DuplicateFindings[i].size = KeyOfFile(DuplicateFindings[i].path).size
              /\ DuplicateFindings[i].risk_level = "Risky"
              /\ DuplicateFindings[i].category = "DuplicateFiles"

----------------------------------------------------------------------------
(* Claims about clean.                                                     *)

AllowedRisks(ceiling) ==
    CASE ceiling = "Safe" -> {"Safe"}
      [] ceiling = "Moderate" -> {"Safe", "Moderate"}
      [] ceiling = "Risky" -> {"Safe", "Moderate", "Risky"}

\* C6: once clean has filtered, the deletion candidates are the findings of
\* the results whose risk is Safe for the ceiling Safe, Safe or Moderate for
\* the ceiling Moderate, and all findings for the ceiling Risky, in the order
\* of the results.
C6_CandidatesWithinCeiling ==
    pc \in {"delete", "returned", "returned_dry", "returned_empty"} =>
        /\ items_to_clean =
              SelectSeq(results.items, LAMBDA f : f.risk_level \in AllowedRisks(max_risk))
        /\ max_risk = "Risky" => items_to_clean = results.items
        /\ max_risk = "Moderate" =>
              \A i \in 1..Len(items_to_clean) : items_to_clean[i].risk_level # "Risky"
        /\ max_risk = "Safe" =>
              \A i \in 1..Len(items_to_clean) : items_to_clean[i].risk_level = "Safe"

\* C6 witness: a clean with the ceiling Moderate whose results hold a Risky
\* finding and a Moderate one, which is a candidate.
C6_Witness ==
    /\ pc \in {"delete", "returned", "returned_dry"}
    /\ max_risk = "Moderate"
    /\ \E i \in 1..Len(results.items) : results.items[i].risk_level = "Risky"
    /\ \E i \in 1..Len(items_to_clean) : items_to_clean[i].risk_level = "Moderate"

----------------------------------------------------------------------------
(* Claims about the consolidated results of a whole scan.                  *)

\* C1, for a whole scan: no finding of the returned results lies strictly
\* below another finding of the returned results.
C1_NoNestedResults == pc = "done" => NoNestedPair(results.items)

----------------------------------------------------------------------------
(* Claims about the deletion loop of clean.                                *)

RECURSIVE SumReclaimed(_, _)
SumReclaimed(calls, i) ==
    IF i > Len(calls) THEN 0 ELSE calls[i].size + SumReclaimed(calls, i + 1)

\* C11: when clean is not a dry run, the deletion loop calls delete_item on
\* every candidate once and in order, whatever the earlier calls returned;
\* cleaned_count and failed_count count the Ok and the Err calls and add up
\* to the number of candidates when clean returns; a candidate whose path
\* does not exist is Ok with 0 bytes; and the loop ends in clean returning Ok.
C11_EveryCandidateAttempted ==
    pc \in {"delete", "returned"} =>
        /\ ~dry_run
        /\ Len(deleted) = (IF pc = "returned" THEN Len(items_to_clean) ELSE next_item - 1)
        /\ \A i \in 1..Len(deleted) :
              /\ deleted[i].path = items_to_clean[i].path
              /\ ~deleted[i].existed => deleted[i].ok /\ deleted[i].size = 0
        /\ cleaned_count = Cardinality({i \in 1..Len(deleted) : deleted[i].ok})
        /\ failed_count = Cardinality({i \in 1..Len(deleted) : ~deleted[i].ok})
        /\ cleaned_size = SumReclaimed(deleted, 1)
        /\ pc = "returned" => cleaned_count + failed_count = Len(items_to_clean)

\* C11 witness: clean has returned after a deletion that failed and, later in
\* the loop, a candidate whose path did not exist.
C11_Witness ==
    /\ pc = "returned"
    /\ failed_count > 0
    /\ \E i, j \in 1..Len(deleted) :
          /\ i < j
          /\ ~deleted[i].ok
          /\ ~deleted[j].existed

\* C12: in a dry run delete_item is never called and the file system stays as
\* it was, whichever branch supplied the results.
C12_DryRunDeletesNothing ==
    dry_run =>
        /\ deleted = <<>>
        /\ fs = CleanHome
        /\ pc \notin {"delete", "returned"}
        /\ cleaned_count = 0 /\ failed_count = 0

\* C12 witness: a dry run has returned with candidates, the results coming
\* from a fresh scan run because the cache file could not be loaded.
C12_Witness ==
    /\ pc = "returned_dry"
    /\ dry_run
    /\ branch = "load_error"
    /\ \E i \in 1..Len(items_to_clean) : Exists(items_to_clean[i].path)

----------------------------------------------------------------------------
(* Claims about entries that fail during a scan.                           *)

\* Nothing at or below node i fails: every node there can be opened and has
\* readable metadata.
Unaffected(i) ==
    \A j \in 1..Len(fs) : IsPrefixSeq(fs[i].path, fs[j].path) => fs[j].ok /\ fs[j].stat

\* No failure ends a sweep early: when scan has returned, every stage the
\* configuration asks for has run to its end and the results are the
\* consolidation of all the findings appended.
AllStagesRan ==
    pc = "done" =>
        /\ Ran("cache") /\ Ran("build") /\ Ran("logs")
        /\ config.min_file_size_mb > 0 => Ran("large")
        /\ config.find_duplicates => Ran("duplicates") /\ pending = {}
        /\ results.items = deduplicate_nested_paths(items)

\* A candidate whose hashing fails is in no group of the table.
HashFailedInNoGroup ==
    \A k \in DOMAIN file_map :
        \A j \in 1..Len(file_map[k]) : fs[NodeAt(NamesOf(file_map[k][j]))].ok

\* Every finding is the one a scan without failures gives for its entry: a
\* directory finding has the byte sum of the whole subtree, a file finding
\* the size of the file.
NoFindingAltered ==
    \A i \in 1..Len(items) :
        /\ NodeAt(NamesOf(items[i].path)) # 0
        /\ IF items[i].sweep \in {"cache", "build"}
           THEN /\ fs[NodeAt(NamesOf(items[i].path))].kind = "dir"
                /\ items[i].size = SubtreeBytes(NamesOf(items[i].path))
           ELSE /\ fs[NodeAt(NamesOf(items[i].path))].kind = "file"
                /\ items[i].size = fs[NodeAt(NamesOf(items[i].path))].size

\* The entries nothing fails on keep their findings: a directory the walk
\* visits, with nothing failing at or below it, has its cache or build
\* finding, and a file the walk visits has its large-file finding.
OtherFindingsKept ==
    /\ pc # "cache" =>
          \A i \in DirNodes :
             Visits(i) > 0 /\ Unaffected(i) /\ CacheMatched(i)
                /\ SubtreeBytes(fs[i].path) > 1048576
             => FindingsAt(PathOf(fs[i].path), "cache") # {}
    /\ pc \notin {"cache", "build"} =>
          \A i \in DirNodes :
             Visits(i) > 0 /\ Unaffected(i) /\ BuildMatched(i)
                /\ SubtreeBytes(fs[i].path) > 1048576
             => FindingsAt(PathOf(fs[i].path), "build") # {}
    /\ Ran("large") =>
          \A i \in 1..Len(fs) :
             fs[i].kind = "file" /\ Visits(i) > 0 /\ fs[i].stat
                /\ fs[i].size >= config.min_file_size_mb * 1048576
                /\ ~LargeSkipped(PathOf(fs[i].path)) /\ ~LargeHidden(PathOf(fs[i].path))
             => FindingsAt(PathOf(fs[i].path), "large") # {}

\* C13: failures on single entries never abort a scan; a candidate whose
\* hashing fails is in no duplicate group; the findings of the entries
\* nothing fails on are all there; and no finding differs from the one a
\* scan without the failures gives.
C13_FailuresOnlyRemoveFindings ==
    /\ AllStagesRan
    /\ HashFailedInNoGroup
    /\ OtherFindingsKept
    /\ NoFindingAltered

\* A configured root resolves: it exists and can be listed.
RootResolves(p) == Exists(p) /\ fs[NodeAt(NamesOf(p))].ok

\* C14: scan returns a ScanResults value only when every configured root
\* resolves; a root that does not exist or cannot be read makes scan fail.
C14_UnresolvableRootIsFatal ==
    pc = "done" => \A r \in 1..Len(config.paths) : RootResolves(config.paths[r])

----------------------------------------------------------------------------
(* Claims about what consolidation keeps.                                  *)

Kept(f) == \E k \in 1..Len(results.items) : results.items[k] = f

\* C15: once scan has consolidated, an appended finding is missing from the
\* results exactly if another appended finding's path is a strict
\* component-wise ancestor of its path, and every finding of the results is
\* one of the appended findings, unchanged.
C15_DropsExactlyNested ==
    pc = "done" =>
        /\ \A i \in 1..Len(items) :
              ~Kept(items[i]) <=>
                  \E j \in 1..Len(items) : StrictDescendant(items[i].path, items[j].path)
        /\ \A k \in 1..Len(results.items) :
              \E i \in 1..Len(items) : items[i] = results.items[k]

\* C16: once scan has consolidated, no two findings of the results have the
\* same path string.
C16_NoTwoFindingsOfOnePath ==
    pc = "done" =>
        \A i, j \in 1..Len(results.items) :
            i # j => results.items[i].path # results.items[j].path

----------------------------------------------------------------------------
(* Claims about the parallel hashing phase.                                *)

\* The candidates (positions of files_to_hash) whose hashing succeeds.
Hashable == {i \in 1..Len(files_to_hash) : fs[files_to_hash[i].node].ok}

\* The candidates of key k and path p whose hashing succeeds.
CandidatesOf(k, p) ==
    {i \in Hashable : KeyOf(files_to_hash[i]) = k /\ files_to_hash[i].path = p}

\* The positions of path p in the group of key k, in any group when k is
\* left out of the table.
SlotsOf(k, p) ==
    IF k \in DOMAIN file_map
    THEN {j \in 1..Len(file_map[k]) : file_map[k][j] = p}
    ELSE {}

AllKeys == DOMAIN file_map \cup {KeyOf(files_to_hash[i]) : i \in Hashable}

AllPaths == {files_to_hash[i].path : i \in 1..Len(files_to_hash)}
            \cup UNION {{file_map[k][j] : j \in 1..Len(file_map[k])} : k \in DOMAIN file_map}

HashingFinished ==
    /\ config.find_duplicates
    /\ \/ pc = "hash" /\ pending = {}
       \/ pc \in {"consolidate", "done"}

\* C17: when every worker has finished, whatever the order in which they ran,
\* the group of each key holds one entry for each candidate of that key whose
\* hashing succeeded and nothing else: no candidate is lost, none is entered
\* twice or under another key, and the groups as multisets of paths are
\* determined by the candidates alone.
C17_TableIsThePartition ==
    HashingFinished =>
        \A k \in AllKeys : \A p \in AllPaths :
            Cardinality(SlotsOf(k, p)) = Cardinality(CandidatesOf(k, p))

\* Three workers have finished in an order other than that of files_to_hash: a
\* group of two, and a candidate whose hashing failed.
C17_Witness ==
    /\ HashingFinished
    /\ pc = "hash"
    /\ Len(files_to_hash) >= 3
    /\ Hashable # 1..Len(files_to_hash)
    /\ \E k \in DOMAIN file_map :
          /\ Len(file_map[k]) = 2
          /\ \E i, j \in Hashable :
                /\ i < j
                /\ file_map[k] = <<files_to_hash[j].path, files_to_hash[i].path>>
                /\ files_to_hash[i].path # files_to_hash[j].path

----------------------------------------------------------------------------
(* Claims about what a clean of all findings leaves on disk.               *)

\* Path p is removed by deleting every finding of the results: a finding is
\* for p itself or for a directory p lies in.
Covered(p) ==
    \E i \in 1..Len(results.items) : PathStartsWith(p, results.items[i].path)

\* The groups of the table that the duplicate stage reports.
DuplicateGroups == {k \in DOMAIN file_map : Len(file_map[k]) > 1}

\* C18: once scan has returned with the duplicate detector on, the original
\* (first-inserted) path of every duplicate group is covered by no finding
\* of the results, so that deleting every finding leaves it on disk.
C18_OriginalSurvivesClean ==
    pc = "done" /\ config.find_duplicates =>
        \A k \in DuplicateGroups : ~Covered(file_map[k][1])

====
